---- MODULE Spec2Model ----
(***************************************************************************)
(* A model of the executable logic of the three example notebooks:         *)
(*   mlx_cfc_rnn_example.ipynb        generate_complex_data, training loop *)
(*   mlx_hardware_optimization.ipynb  optimize_for_neural_engine,          *)
(*                                    MemoryOptimizedTrainer.train         *)
(*   mlx_custom_visualization.ipynb   HierarchicalWiringVisualizer,        *)
(*                                    RealTimeVisualizer                   *)
(* Each notebook is a separate specification over its own variables; the   *)
(* variables of the other notebooks stay parked at their initial values.   *)
(* Calls into the imported framework (model, optimizer, profiler, plotting)*)
(* are steps that succeed; numpy's own argument checks are modelled.       *)
(***************************************************************************)
EXTENDS Integers, Sequences, FiniteSets, TLC

VARIABLES
    \* ---- mlx_cfc_rnn_example.ipynb: generate_complex_data ----
    gpc,            \* position inside generate_complex_data
    caller,         \* who called it: "none", "cell" (a direct call), "loop"
    g_batch_size,   \* argument batch_size
    g_seq_length,   \* argument seq_length
    x_len,          \* len(x), the length of the signal
    gi,             \* the loop variable i: samples filled so far
    gX,             \* X: per sample, per time step, the pair of features
    gy,             \* y: per sample, the pair of targets
    \* ---- mlx_cfc_rnn_example.ipynb: the training cell ----
    tpc,            \* position inside the training cell
    batch_size,     \* the cell's batch_size
    seq_length,     \* the cell's seq_length
    n_epochs,       \* the cell's n_epochs
    epoch,          \* the loop variable
    losses,         \* the list losses (each entry: the epoch that produced it)
    printed,        \* epochs whose loss was printed, in order
    iter_steps,     \* steps performed so far in the current iteration
    \* ---- mlx_hardware_optimization.ipynb: MemoryOptimizedTrainer.train ----
    tr_pc,          \* position inside train
    tX,             \* X: the samples, each named by its original position
    ty,             \* y: the targets, each named by the sample it belongs to
    tr_batch_size,  \* argument batch_size
    epochs,         \* argument epochs
    n_batches,      \* len(X) // batch_size
    tr_epoch,       \* the loop variable epoch
    bi,             \* the loop variable i of the batch loop
    epoch_loss,     \* number of batch losses summed into epoch_loss
    batch_x,        \* the current batch's samples
    batch_y,        \* the current batch's targets
    epoch_batches,  \* the batches taken so far in this epoch
    updates,        \* optimizer.update calls made by this train call
    profiles,       \* profile_memory calls made by this train call
    history,        \* the dict history
    \* ---- mlx_hardware_optimization.ipynb: optimize_for_neural_engine ----
    ne_pc,          \* position inside optimize_for_neural_engine
    sizes,          \* argument sizes
    size_idx,       \* sizes already iterated over
    batch_idx,      \* batch sizes already iterated over for this size
    compiled_idx,   \* compiled flags already iterated over for this batch size
    results,        \* the list results
    \* ---- mlx_custom_visualization.ipynb: HierarchicalWiringVisualizer ----
    hv_pc,          \* position inside __init__ / _detect_layers
    units,          \* wiring.units
    adjacency_matrix, \* wiring.adjacency_matrix, indexed [src, dest] from 0
    layers_arg,     \* the constructor's layers argument (None or a list)
    layers,         \* self.layers, or the local layers of _detect_layers
    remaining,      \* the local set remaining of _detect_layers
    output_idx,     \* which layer _detect_layers appended as output (0: none)
    hier_result,    \* how the last plot_hierarchical call ended
    hier_labels,    \* the label plot_hierarchical put at each layer
    conn_labels,    \* the tick labels of plot_layer_connectivity
    \* ---- mlx_custom_visualization.ipynb: RealTimeVisualizer ----
    rt_pc,          \* position inside monitor
    rt_history,     \* self.history
    n_steps,        \* argument n_steps
    step,           \* the loop variable step
    interactive,    \* matplotlib's interactive mode (plt.ion / plt.ioff)
    plot_ready,     \* initialize_plot has created the figure
    activity,       \* the local activity of the current step
    calls,          \* monitor calls started
    len_at_call,    \* len(self.history) when the current call started
    steps_done,     \* loop passes completed by all monitor calls
    call_events     \* what the current monitor call has done so far, in order

cfcVars == <<gpc, caller, g_batch_size, g_seq_length, x_len, gi, gX, gy,
             tpc, batch_size, seq_length, n_epochs, epoch, losses, printed,
             iter_steps>>

trVars == <<tr_pc, tX, ty, tr_batch_size, epochs, n_batches, tr_epoch, bi,
            epoch_loss, batch_x, batch_y, epoch_batches, updates, profiles,
            history>>

neVars == <<ne_pc, sizes, size_idx, batch_idx, compiled_idx, results>>

hvVars == <<hv_pc, units, adjacency_matrix, layers_arg, layers, remaining,
            output_idx, hier_result, hier_labels, conn_labels>>

rtVars == <<rt_pc, rt_history, n_steps, step, interactive, plot_ready,
            activity, calls, len_at_call, steps_done, call_events>>

vars == <<cfcVars, trVars, neVars, hvVars, rtVars>>

\* None, and the state of each notebook before any of its code has run.
None == "None"

\* The constructor's layers argument: None (the default), or a list.
NoLayers == [none |-> TRUE, list |-> <<>>]
GivenLayers(l) == [none |-> FALSE, list |-> l]

TrainerIdle ==
    /\ tr_pc = "idle"
    /\ tX = <<>> /\ ty = <<>>
    /\ tr_batch_size = 0 /\ epochs = 0 /\ n_batches = 0 /\ tr_epoch = 0
    /\ bi = 0 /\ epoch_loss = 0
    /\ batch_x = <<>> /\ batch_y = <<>> /\ epoch_batches = <<>>
    /\ updates = 0 /\ profiles = 0
    /\ history = None

NEIdle ==
    /\ ne_pc = "idle"
    /\ sizes = <<>> /\ size_idx = 0 /\ batch_idx = 0 /\ compiled_idx = 0
    /\ results = <<>>

HVIdle ==
    /\ hv_pc = "idle"
    /\ units = 0 /\ adjacency_matrix = <<>> /\ layers_arg = NoLayers
    /\ layers = <<>> /\ remaining = {} /\ output_idx = 0
    /\ hier_result = "none" /\ hier_labels = <<>> /\ conn_labels = <<>>

RTIdle ==
    /\ rt_pc = "unbuilt"
    /\ rt_history = None /\ n_steps = 0 /\ step = 0
    /\ interactive = FALSE /\ plot_ready = FALSE
    /\ activity = 0 /\ calls = 0 /\ len_at_call = 0 /\ steps_done = 0
    /\ call_events = <<>>

\* ---------------------------------------------------------------- bounds
MaxBatch == 2
MaxSeq == 4
MaxEpochs == 11

\* ------------------------------------------------- generate_complex_data
\* A feature or target not yet written still holds np.zeros' 0.
Zero == -1

\* len(np.linspace(0, 8*np.pi, num)): num points.
LinspaceLen(num) == num

\* np.random.randint(low, high): a value of low .. high-1; the empty set
\* stands for the ValueError numpy raises when low >= high.
RandintRange(low, high) == IF low >= high THEN {} ELSE low .. (high - 1)

\* x[a:b] for 0 <= a: the indices read, clipped to the signal.
SliceIdx(a, b, n) ==
    LET hi == IF b < n THEN b ELSE n
    IN  IF a >= hi THEN <<>> ELSE [k \in 1 .. (hi - a) |-> a + k - 1]

\* np.zeros((batch_size, seq_length-1, 2)) and np.zeros((batch_size, 2)).
ZerosX(b, s) == [i \in 1 .. b |-> [k \in 1 .. (s - 1) |-> <<Zero, Zero>>]]
ZerosY(b) == [i \in 1 .. b |-> <<Zero, Zero>>]

\* The upper bound handed to randint for the window start.
StartHigh(n, s) == n - s

GenIdle ==
    /\ gpc = "idle" /\ caller = "none"
    /\ g_batch_size = 0 /\ g_seq_length = 0 /\ x_len = 0 /\ gi = 0
    /\ gX = <<>> /\ gy = <<>>

TrainIdle ==
    /\ tpc = "idle"
    /\ batch_size = 0 /\ seq_length = 0 /\ n_epochs = 0 /\ epoch = 0
    /\ losses = <<>> /\ printed = <<>> /\ iter_steps = <<>>

trainVars == <<tpc, batch_size, seq_length, n_epochs, epoch, losses, printed,
               iter_steps>>
genVars == <<gpc, caller, g_batch_size, g_seq_length, x_len, gi, gX, gy>>

\* A direct call from a cell: generate_complex_data(batch_size=b, seq_length=s).
CallGenerate ==
    /\ gpc = "idle" /\ tpc = "idle"
    /\ \E b \in 0 .. MaxBatch, s \in 1 .. MaxSeq :
          /\ g_batch_size' = b
          /\ g_seq_length' = s
    /\ caller' = "cell"
    /\ gpc' = "signal"
    /\ UNCHANGED <<x_len, gi, gX, gy, trainVars>>
    /\ UNCHANGED <<trVars, neVars, hvVars, rtVars>>

\* t = np.linspace(...); x = x1 + x2 + x3.
GenSignal ==
    /\ gpc = "signal"
    /\ x_len' = LinspaceLen(g_seq_length)
    /\ gpc' = "alloc"
    /\ UNCHANGED <<caller, g_batch_size, g_seq_length, gi, gX, gy, trainVars>>
    /\ UNCHANGED <<trVars, neVars, hvVars, rtVars>>

\* X = np.zeros(...); y = np.zeros(...): a negative dimension is a ValueError.
GenAlloc ==
    /\ gpc = "alloc"
    /\ IF g_batch_size < 0 \/ g_seq_length - 1 < 0
       THEN /\ gpc' = "raised"
            /\ UNCHANGED <<gX, gy>>
       ELSE /\ gX' = ZerosX(g_batch_size, g_seq_length)
            /\ gy' = ZerosY(g_batch_size)
            /\ gpc' = "loop"
    /\ gi' = 0
    /\ UNCHANGED <<caller, g_batch_size, g_seq_length, x_len, trainVars>>
    /\ UNCHANGED <<trVars, neVars, hvVars, rtVars>>

\* What one pass of the body of `for i in range(batch_size)` does with the
\* window start st: the rows written, or the exception raised.
SampleFails(st) ==
    LET w == SliceIdx(st, st + g_seq_length - 1, x_len)
    IN  \/ (Len(w) # g_seq_length - 1 /\ Len(w) # 1)  \* cannot broadcast
        \/ Len(w) < 2                                 \* np.gradient needs 2
        \/ st + g_seq_length - 1 >= x_len             \* IndexError
        \/ x_len < 2                                  \* np.gradient(x)

SampleRow(st) ==
    LET w == SliceIdx(st, st + g_seq_length - 1, x_len)
    IN  [k \in 1 .. (g_seq_length - 1) |->
            IF Len(w) = 1 THEN <<w[1], w[1]>> ELSE <<w[k], w[k]>>]

SampleTarget(st) == <<st + g_seq_length - 1, st + g_seq_length - 1>>

GenSample ==
    /\ gpc = "loop"
    /\ gi < g_batch_size
    /\ LET starts == RandintRange(0, StartHigh(x_len, g_seq_length))
       IN  IF starts = {}
           THEN /\ gpc' = "raised"
                /\ UNCHANGED <<gi, gX, gy>>
           ELSE \E start_idx \in starts :
                   IF SampleFails(start_idx)
                   THEN /\ gpc' = "raised"
                        /\ UNCHANGED <<gi, gX, gy>>
                   ELSE /\ gX' = [gX EXCEPT ![gi + 1] = SampleRow(start_idx)]
                        /\ gy' = [gy EXCEPT ![gi + 1] = SampleTarget(start_idx)]
                        /\ gi' = gi + 1
                        /\ gpc' = "loop"
    /\ UNCHANGED <<caller, g_batch_size, g_seq_length, x_len, trainVars>>
    /\ UNCHANGED <<trVars, neVars, hvVars, rtVars>>

\* return mx.array(X), mx.array(y)
GenReturn ==
    /\ gpc = "loop"
    /\ gi >= g_batch_size
    /\ gpc' = "returned"
    /\ UNCHANGED <<caller, g_batch_size, g_seq_length, x_len, gi, gX, gy,
                   trainVars>>
    /\ UNCHANGED <<trVars, neVars, hvVars, rtVars>>

\* ------------------------------------------------------ the training cell
\* `if epoch % 10 == 0`
PrintEvery == 10

\* The cell's settings; the notebook sets batch_size = 32, seq_length = 50 and
\* n_epochs = 100, and the model draws them from bounded sets.
StartTraining ==
    /\ UNCHANGED <<trVars, neVars, hvVars, rtVars>>
    /\ gpc = "idle" /\ tpc = "idle"
    /\ \E b \in 0 .. MaxBatch, s \in 2 .. MaxSeq, n \in 0 .. MaxEpochs :
          /\ batch_size' = b
          /\ seq_length' = s
          /\ n_epochs' = n
    /\ losses' = <<>>
    /\ epoch' = 0
    /\ tpc' = "head"
    /\ UNCHANGED <<printed, iter_steps, genVars>>

\* `for epoch in range(n_epochs)`: the next iteration, or the end of the loop.
TrainHead ==
    /\ UNCHANGED <<trVars, neVars, hvVars, rtVars>>
    /\ tpc = "head"
    /\ IF epoch < n_epochs
       THEN /\ tpc' = "gen"
            /\ caller' = "loop"
            /\ g_batch_size' = batch_size
            /\ g_seq_length' = seq_length
            /\ gpc' = "signal"
            /\ iter_steps' = <<>>
       ELSE /\ tpc' = "done"
            /\ UNCHANGED <<caller, g_batch_size, g_seq_length, gpc, iter_steps>>
    /\ UNCHANGED <<x_len, gi, gX, gy, batch_size, seq_length, n_epochs, epoch,
                   losses, printed>>

\* X, y = generate_complex_data(batch_size, seq_length) has returned.
TrainGenerated ==
    /\ UNCHANGED <<trVars, neVars, hvVars, rtVars>>
    /\ tpc = "gen" /\ caller = "loop" /\ gpc = "returned"
    /\ iter_steps' = Append(iter_steps, "generate")
    /\ tpc' = "grad"
    /\ gpc' = "idle"
    /\ caller' = "none"
    /\ UNCHANGED <<g_batch_size, g_seq_length, x_len, gi, gX, gy, batch_size,
                   seq_length, n_epochs, epoch, losses, printed>>

\* generate_complex_data raised: nothing catches it, the cell ends there.
TrainGenerateRaised ==
    /\ UNCHANGED <<trVars, neVars, hvVars, rtVars>>
    /\ tpc = "gen" /\ caller = "loop" /\ gpc = "raised"
    /\ tpc' = "raised"
    /\ caller' = "none"
    /\ UNCHANGED <<gpc, g_batch_size, g_seq_length, x_len, gi, gX, gy,
                   batch_size, seq_length, n_epochs, epoch, losses, printed,
                   iter_steps>>

\* loss, grads = loss_and_grad_fn(model, X, y, time_delta)
TrainGrad ==
    /\ UNCHANGED <<trVars, neVars, hvVars, rtVars>>
    /\ tpc = "grad"
    /\ iter_steps' = Append(iter_steps, "loss_and_grad")
    /\ tpc' = "update"
    /\ UNCHANGED <<genVars, batch_size, seq_length, n_epochs, epoch, losses,
                   printed>>

\* optimizer.update(model, grads)
TrainUpdate ==
    /\ UNCHANGED <<trVars, neVars, hvVars, rtVars>>
    /\ tpc = "update"
    /\ iter_steps' = Append(iter_steps, "update")
    /\ tpc' = "append"
    /\ UNCHANGED <<genVars, batch_size, seq_length, n_epochs, epoch, losses,
                   printed>>

\* losses.append(float(loss))
TrainAppend ==
    /\ UNCHANGED <<trVars, neVars, hvVars, rtVars>>
    /\ tpc = "append"
    /\ losses' = Append(losses, epoch)
    /\ iter_steps' = Append(iter_steps, "append")
    /\ tpc' = "print"
    /\ UNCHANGED <<genVars, batch_size, seq_length, n_epochs, epoch, printed>>

\* if epoch % 10 == 0: print(...); then the next value of epoch.
TrainPrint ==
    /\ UNCHANGED <<trVars, neVars, hvVars, rtVars>>
    /\ tpc = "print"
    /\ printed' = IF epoch % PrintEvery = 0 THEN Append(printed, epoch)
                  ELSE printed
    /\ epoch' = epoch + 1
    /\ tpc' = "head"
    /\ UNCHANGED <<genVars, batch_size, seq_length, n_epochs, losses,
                   iter_steps>>

CfCInit == GenIdle /\ TrainIdle /\ TrainerIdle /\ NEIdle /\ HVIdle /\ RTIdle

CfCNext ==
    \/ CallGenerate
    \/ GenSignal
    \/ GenAlloc
    \/ GenSample
    \/ GenReturn
    \/ StartTraining
    \/ TrainHead
    \/ TrainGenerated
    \/ TrainGenerateRaised
    \/ TrainGrad
    \/ TrainUpdate
    \/ TrainAppend
    \/ TrainPrint

SpecCfC == CfCInit /\ [][CfCNext]_vars

\* C1: for every batch_size >= 1 and seq_length >= 2, a call
\* generate_complex_data(batch_size, seq_length) does not raise, and returns X
\* with batch_size sequences of seq_length-1 steps of 2 features and y with
\* batch_size targets of 2 values.
C1_GenerateCompletes ==
    (caller = "cell" /\ g_batch_size >= 1 /\ g_seq_length >= 2) =>
        /\ gpc # "raised"
        /\ gpc = "returned" =>
              /\ Len(gX) = g_batch_size
              /\ \A i \in 1 .. Len(gX) :
                    /\ Len(gX[i]) = g_seq_length - 1
                    /\ \A k \in 1 .. Len(gX[i]) : Len(gX[i][k]) = 2
              /\ Len(gy) = g_batch_size
              /\ \A i \in 1 .. Len(gy) : Len(gy[i]) = 2

\* The epochs below n that are divisible by 10, ascending.
PrintedEpochs(n) ==
    LET RECURSIVE Upto(_)
        Upto(e) == IF e >= n THEN <<>>
                   ELSE IF e % PrintEvery = 0 THEN <<e>> \o Upto(e + 1)
                   ELSE Upto(e + 1)
    IN  Upto(0)

\* C4: in the training cell every one of the n_epochs iterations performs, once
\* and in this order, data generation, loss-and-gradient computation, the
\* optimizer update and the append of its loss; when the loop has ended, losses
\* has n_epochs entries and the loss was printed exactly for the epochs
\* divisible by 10.
C4_TrainingLoopRunsEveryEpoch ==
    /\ tpc = "print" =>
          iter_steps = <<"generate", "loss_and_grad", "update", "append">>
    /\ tpc \in {"done", "raised"} =>
          /\ Len(losses) = n_epochs
          /\ printed = PrintedEpochs(n_epochs)

\* C11: for every sample i the window start index is chosen so that every
\* index read from x (start_idx through start_idx + seq_length - 1) lies within
\* 0 .. len(x) - 1, and the target y[i, 0] is the signal value at the index
\* right after the last index of the input window X[i, :, 0].
C11_WindowStartInsideSignal ==
    g_seq_length >= 2 =>
        /\ (gpc = "loop" /\ gi < g_batch_size) =>
              LET starts == RandintRange(0, StartHigh(x_len, g_seq_length))
              IN  /\ starts # {}
                  /\ \A st \in starts :
                        \A k \in st .. (st + g_seq_length - 1) :
                           k \in 0 .. (x_len - 1)
        /\ gpc \in {"loop", "returned"} =>
              \A i \in 1 .. gi :
                 /\ \A k \in 1 .. Len(gX[i]) : gX[i][k][1] \in 0 .. (x_len - 1)
                 /\ gy[i][1] \in 0 .. (x_len - 1)
                 /\ gy[i][1] = gX[i][Len(gX[i])][1] + 1

\* ------------------------------------------ MemoryOptimizedTrainer.train
MaxLen == 4
MaxTrainBatch == 3
MaxTrainEpochs == 2

\* mx.random.permutation(n): every ordering of the indices 0 .. n-1.
Permutation(n) ==
    {p \in [1 .. n -> 0 .. (n - 1)] :
        \A i, j \in 1 .. n : p[i] = p[j] => i = j}

\* a[indices]: the rows of a at the given (0-based) indices, in that order.
Gather(a, indices) == [k \in 1 .. Len(indices) |-> a[indices[k] + 1]]

\* X = X[indices]
ShuffledX(X, indices) == Gather(X, indices)

\* A shuffle that leaves y as it was.
ShuffledYForgotten(y, indices) == y

\* y = y[indices]
ShuffledY(y, indices) == Gather(y, indices)

\* A batch loop that runs one pass too many.
MoreBatchesInclusive(i, n) == i <= n

\* `for i in range(n_batches)`: whether pass i runs.
MoreBatches(i, n) == i < n

\* A batch start that is not scaled by the batch size.
StartIdxUnscaled(i, b) == i

\* start_idx = i * batch_size
StartIdx(i, b) == i * b

\* a[start:end] for 0 <= start <= end, clipped to the array.
Slice(a, start, end) ==
    LET hi == IF end < Len(a) THEN end ELSE Len(a)
    IN  IF start >= hi THEN <<>> ELSE [k \in 1 .. (hi - start) |-> a[start + k]]

\* history = {'loss': [], 'memory': [], 'time': []}
EmptyHistory == [loss |-> <<>>, memory |-> <<>>, time |-> <<>>]

\* history['loss'].append(epoch_loss / n_batches)
RecordedLoss(h, e) == [h EXCEPT !.loss = Append(@, e)]

\* history['time'].append(time() - epoch_start)
RecordedTime(h, e) == [h EXCEPT !.time = Append(@, e)]

\* A profiling step that records nothing.
RecordedMemoryDropped(h, e) == h

\* history['memory'].append(memory_stats['peak_usage'])
RecordedMemory(h, e) == [h EXCEPT !.memory = Append(@, e)]

notTrainer == <<cfcVars, neVars, hvVars, rtVars>>

\* trainer.train(X, y, batch_size=b, epochs=ep) with len(X) = len(y) = n.
TrainCall ==
    /\ tr_pc = "idle"
    /\ \E n \in 1 .. MaxLen, b \in 1 .. MaxTrainBatch, ep \in 0 .. MaxTrainEpochs :
          /\ tX' = [k \in 1 .. n |-> k]
          /\ ty' = [k \in 1 .. n |-> k]
          /\ tr_batch_size' = b
          /\ epochs' = ep
          /\ n_batches' = n \div b
    /\ history' = EmptyHistory
    /\ tr_epoch' = 0
    /\ tr_pc' = "epoch_head"
    /\ UNCHANGED <<bi, epoch_loss, batch_x, batch_y, epoch_batches, updates,
                   profiles>>
    /\ UNCHANGED notTrainer

\* `for epoch in range(epochs)`: the next epoch, or `return history`.
EpochHead ==
    /\ tr_pc = "epoch_head"
    /\ IF tr_epoch < epochs
       THEN /\ tr_pc' = "shuffle"
            /\ epoch_loss' = 0
       ELSE /\ tr_pc' = "returned"
            /\ UNCHANGED epoch_loss
    /\ UNCHANGED <<tX, ty, tr_batch_size, epochs, n_batches, tr_epoch, bi,
                   batch_x, batch_y, epoch_batches, updates, profiles, history>>
    /\ UNCHANGED notTrainer

\* indices = mx.random.permutation(len(X)); X = X[indices]; y = y[indices]
Shuffle ==
    /\ tr_pc = "shuffle"
    /\ \E indices \in Permutation(Len(tX)) :
          /\ tX' = ShuffledX(tX, indices)
          /\ ty' = ShuffledY(ty, indices)
    /\ bi' = 0
    /\ epoch_batches' = <<>>
    /\ tr_pc' = "batch_head"
    /\ UNCHANGED <<tr_batch_size, epochs, n_batches, tr_epoch, epoch_loss,
                   batch_x, batch_y, updates, profiles, history>>
    /\ UNCHANGED notTrainer

\* `for i in range(n_batches)`: slice the batch and compute loss and grads,
\* or leave the loop.
BatchGrad ==
    /\ tr_pc = "batch_head"
    /\ IF MoreBatches(bi, n_batches)
       THEN LET start_idx == StartIdx(bi, tr_batch_size)
                end_idx == start_idx + tr_batch_size
            IN  /\ batch_x' = Slice(tX, start_idx, end_idx)
                /\ batch_y' = Slice(ty, start_idx, end_idx)
                /\ epoch_batches' =
                      Append(epoch_batches, Slice(tX, start_idx, end_idx))
                /\ tr_pc' = "update"
       ELSE /\ tr_pc' = "record_loss"
            /\ UNCHANGED <<batch_x, batch_y, epoch_batches>>
    /\ UNCHANGED <<tX, ty, tr_batch_size, epochs, n_batches, tr_epoch, bi,
                   epoch_loss, updates, profiles, history>>
    /\ UNCHANGED notTrainer

\* self.optimizer.update(self.model, grads); epoch_loss += float(loss)
BatchUpdate ==
    /\ tr_pc = "update"
    /\ updates' = updates + 1
    /\ epoch_loss' = epoch_loss + 1
    /\ bi' = bi + 1
    /\ tr_pc' = "batch_head"
    /\ UNCHANGED <<tX, ty, tr_batch_size, epochs, n_batches, tr_epoch,
                   batch_x, batch_y, epoch_batches, profiles, history>>
    /\ UNCHANGED notTrainer

\* history['loss'].append(epoch_loss / n_batches): ZeroDivisionError when
\* n_batches is 0.
RecordLoss ==
    /\ tr_pc = "record_loss"
    /\ IF n_batches = 0
       THEN /\ tr_pc' = "raised"
            /\ UNCHANGED history
       ELSE /\ history' = RecordedLoss(history, tr_epoch)
            /\ tr_pc' = "record_time"
    /\ UNCHANGED <<tX, ty, tr_batch_size, epochs, n_batches, tr_epoch, bi,
                   epoch_loss, batch_x, batch_y, epoch_batches, updates,
                   profiles>>
    /\ UNCHANGED notTrainer

RecordTime ==
    /\ tr_pc = "record_time"
    /\ history' = RecordedTime(history, tr_epoch)
    /\ tr_pc' = "profile"
    /\ UNCHANGED <<tX, ty, tr_batch_size, epochs, n_batches, tr_epoch, bi,
                   epoch_loss, batch_x, batch_y, epoch_batches, updates,
                   profiles>>
    /\ UNCHANGED notTrainer

\* profiler = MLXProfiler(self.model); profiler.profile_memory(...);
\* history['memory'].append(...)
ProfileMemory ==
    /\ tr_pc = "profile"
    /\ profiles' = profiles + 1
    /\ history' = RecordedMemory(history, tr_epoch)
    /\ tr_pc' = "print"
    /\ UNCHANGED <<tX, ty, tr_batch_size, epochs, n_batches, tr_epoch, bi,
                   epoch_loss, batch_x, batch_y, epoch_batches, updates>>
    /\ UNCHANGED notTrainer

\* print(f"Epoch {epoch+1}/{epochs}, ..."): the epoch is complete.
PrintEpoch ==
    /\ tr_pc = "print"
    /\ tr_epoch' = tr_epoch + 1
    /\ tr_pc' = "epoch_head"
    /\ UNCHANGED <<tX, ty, tr_batch_size, epochs, n_batches, bi, epoch_loss,
                   batch_x, batch_y, epoch_batches, updates, profiles, history>>
    /\ UNCHANGED notTrainer

TrainerInit ==
    GenIdle /\ TrainIdle /\ TrainerIdle /\ NEIdle /\ HVIdle /\ RTIdle

TrainerNext ==
    \/ TrainCall
    \/ EpochHead
    \/ Shuffle
    \/ BatchGrad
    \/ BatchUpdate
    \/ RecordLoss
    \/ RecordTime
    \/ ProfileMemory
    \/ PrintEpoch

SpecTrainer == TrainerInit /\ [][TrainerNext]_vars

\* C2: train never fails in its own arithmetic: for len(X) >= 1,
\* batch_size >= 1 and epochs >= 1 the per-epoch mean loss is computed with a
\* divisor n_batches = len(X) // batch_size that is at least 1.
C2_MeanLossDivisorAtLeastOne ==
    (Len(tX) >= 1 /\ tr_batch_size >= 1 /\ epochs >= 1) =>
        /\ tr_pc = "record_loss" => n_batches >= 1
        /\ tr_pc # "raised"

\* C6: at the end of every epoch the lists 'loss', 'memory' and 'time' have the
\* same length, the number of epochs completed so far; the history that train
\* returns has exactly `epochs` entries in each list.
C6_HistoryLengths ==
    /\ tr_pc = "epoch_head" =>
          /\ Len(history.loss) = tr_epoch
          /\ Len(history.memory) = tr_epoch
          /\ Len(history.time) = tr_epoch
    /\ tr_pc = "returned" =>
          /\ Len(history.loss) = epochs
          /\ Len(history.memory) = epochs
          /\ Len(history.time) = epochs

\* An epoch has been completed and recorded, and train has returned a history
\* of two epochs.
C6_Witness ==
    /\ tr_pc = "returned" /\ epochs = 2 /\ updates >= 2
    /\ Len(history.loss) = 2

\* C7: the per-epoch shuffle applies the same permutation to X and y: after any
\* number of epochs every sample is still paired with its own target, and the
\* (sample, target) pairs are the original ones, none lost or duplicated.
C7_ShuffleKeepsPairs ==
    tr_pc # "idle" =>
        /\ Len(tX) = Len(ty)
        /\ \A i \in 1 .. Len(tX) : ty[i] = tX[i]
        /\ \A k \in 1 .. Len(tX) :
              Cardinality({i \in 1 .. Len(tX) : tX[i] = k}) = 1

\* After two shuffles the data is in an order other than the original one.
C7_Witness ==
    /\ tr_epoch = 1 /\ tr_pc = "batch_head"
    /\ Len(tX) = 3 /\ tX # <<1, 2, 3>>
    /\ \A i \in 1 .. 3 : ty[i] = tX[i]

\* The samples a list of batches uses.
UsedBy(batches) ==
    {batches[k][j] : <<k, j>> \in
        {<<k, j>> \in (1 .. Len(batches)) \X (1 .. Len(tX)) :
            j <= Len(batches[k])}}

\* C12: within one epoch the n_batches = len(X) // batch_size batches are
\* contiguous, pairwise disjoint slices of the shuffled data holding exactly
\* batch_size samples each; every sample is used in at most one batch, and
\* exactly the last len(X) mod batch_size samples of the shuffled order are
\* used in none.
C12_BatchesPartitionPrefix ==
    tr_pc \in {"batch_head", "update", "record_loss"} =>
        /\ n_batches = Len(tX) \div tr_batch_size
        /\ Len(epoch_batches) <= n_batches
        /\ \A k \in 1 .. Len(epoch_batches) :
              /\ k * tr_batch_size <= Len(tX)
              /\ Len(epoch_batches[k]) = tr_batch_size
              /\ \A j \in 1 .. tr_batch_size :
                    epoch_batches[k][j] = tX[(k - 1) * tr_batch_size + j]
        /\ \A k1, k2 \in 1 .. Len(epoch_batches) :
              k1 # k2 =>
                 UsedBy(<<epoch_batches[k1]>>) \cap UsedBy(<<epoch_batches[k2]>>)
                    = {}
        /\ tr_pc = "update" =>
              /\ batch_x = epoch_batches[Len(epoch_batches)]
              /\ batch_y = batch_x
        /\ tr_pc = "record_loss" =>
              /\ Len(epoch_batches) = n_batches
              /\ {tX[p] : p \in 1 .. Len(tX)} \ UsedBy(epoch_batches) =
                    {tX[p] : p \in
                        (Len(tX) - (Len(tX) % tr_batch_size) + 1) .. Len(tX)}

\* An epoch has taken two batches of two samples from shuffled data.
C12_Witness ==
    /\ tr_pc = "record_loss"
    /\ Len(tX) = 4 /\ tr_batch_size = 2
    /\ tX # <<1, 2, 3, 4>>
    /\ Len(epoch_batches) = 2

\* An epoch has taken its one batch and left the last sample out.
C12_WitnessRemainder ==
    /\ tr_pc = "record_loss"
    /\ Len(tX) = 3 /\ tr_batch_size = 2
    /\ Len(epoch_batches) = 1
    /\ UsedBy(epoch_batches) = {tX[1], tX[2]}

\* C13: for every batch the loss and gradients are computed before the
\* optimizer update and each batch triggers exactly one update, so a completed
\* train call performs exactly epochs * n_batches updates; memory is profiled
\* exactly once per epoch, after that epoch's last batch update and before the
\* next epoch's first batch.
C13_UpdatesAndProfilesInOrder ==
    tr_pc # "idle" =>
        /\ tr_pc \in {"epoch_head", "shuffle", "returned"} =>
              updates = tr_epoch * n_batches
        /\ tr_pc = "batch_head" =>
              /\ bi <= n_batches
              /\ Len(epoch_batches) = bi
              /\ updates = tr_epoch * n_batches + bi
        /\ tr_pc = "update" =>
              /\ bi < n_batches
              /\ Len(epoch_batches) = bi + 1
              /\ updates = tr_epoch * n_batches + bi
        /\ tr_pc \in {"record_loss", "record_time", "profile", "print",
                      "raised"} =>
              updates = (tr_epoch + 1) * n_batches
        /\ profiles = IF tr_pc = "print" THEN tr_epoch + 1 ELSE tr_epoch
        /\ tr_pc = "returned" =>
              /\ tr_epoch = epochs
              /\ updates = epochs * n_batches
              /\ profiles = epochs

\* A train call of two epochs of two batches each has returned.
C13_Witness ==
    /\ tr_pc = "returned"
    /\ epochs = 2 /\ n_batches = 2
    /\ updates = 4 /\ profiles = 2

\* ------------------------------------------- optimize_for_neural_engine
MaxSizes == 2

\* The hidden sizes a caller passes; the default is [32, 64, 128].
SizeChoices == {32, 64, 128}

\* batch_sizes = [16, 32, 64, 128]
batch_sizes == <<16, 32, 64, 128>>

\* for compiled in [False, True]
compiled_flags == <<FALSE, TRUE>>

\* The record appended for one profiling run; the measured values 'tflops',
\* 'memory' and 'time' come from the profiler and are left out.
ResultRecord(hidden_size, b, compiled) ==
    [size |-> hidden_size, batch_size |-> b, compiled |-> compiled]

\* An append that only the uncompiled branch reaches.
AppendedUncompiledOnly(res, rec) ==
    IF rec.compiled THEN res ELSE Append(res, rec)

\* results.append({...})
Appended(res, rec) == Append(res, rec)

\* data = [r for r in ne_results if r['size'] == size and
\*         r['compiled'] == compiled]; [d['batch_size'] for d in data]
PlotBatchSizes(res, size, compiled) ==
    LET Keep(r) == r.size = size /\ r.compiled = compiled
        data == SelectSeq(res, Keep)
    IN  [k \in 1 .. Len(data) |-> data[k].batch_size]

AllSeqs(S, n) == UNION {[1 .. m -> S] : m \in 0 .. n}

notNE == <<cfcVars, trVars, hvVars, rtVars>>

\* optimize_for_neural_engine(sizes): results = []
NECall ==
    /\ ne_pc = "idle"
    /\ \E sz \in AllSeqs(SizeChoices, MaxSizes) : sizes' = sz
    /\ results' = <<>>
    /\ size_idx' = 0
    /\ ne_pc' = "size_head"
    /\ UNCHANGED <<batch_idx, compiled_idx>>
    /\ UNCHANGED notNE

\* `for hidden_size in sizes`: build the wiring and the model, or return.
NESizeHead ==
    /\ ne_pc = "size_head"
    /\ IF size_idx < Len(sizes)
       THEN /\ ne_pc' = "batch_head"
            /\ batch_idx' = 0
       ELSE /\ ne_pc' = "returned"
            /\ UNCHANGED batch_idx
    /\ UNCHANGED <<sizes, size_idx, compiled_idx, results>>
    /\ UNCHANGED notNE

\* `for batch_size in batch_sizes`: a profiler for this batch size, or the
\* next hidden size.
NEBatchHead ==
    /\ ne_pc = "batch_head"
    /\ IF batch_idx < Len(batch_sizes)
       THEN /\ ne_pc' = "compiled_head"
            /\ compiled_idx' = 0
            /\ UNCHANGED size_idx
       ELSE /\ ne_pc' = "size_head"
            /\ size_idx' = size_idx + 1
            /\ UNCHANGED compiled_idx
    /\ UNCHANGED <<sizes, batch_idx, results>>
    /\ UNCHANGED notNE

\* `for compiled in [False, True]`: profile compute and memory and append the
\* record, or the next batch size.
NEProfile ==
    /\ ne_pc = "compiled_head"
    /\ IF compiled_idx < Len(compiled_flags)
       THEN /\ results' =
                  Appended(results,
                           ResultRecord(sizes[size_idx + 1],
                                        batch_sizes[batch_idx + 1],
                                        compiled_flags[compiled_idx + 1]))
            /\ compiled_idx' = compiled_idx + 1
            /\ UNCHANGED <<ne_pc, batch_idx>>
       ELSE /\ ne_pc' = "batch_head"
            /\ batch_idx' = batch_idx + 1
            /\ UNCHANGED <<results, compiled_idx>>
    /\ UNCHANGED <<sizes, size_idx>>
    /\ UNCHANGED notNE

NEInit == GenIdle /\ TrainIdle /\ TrainerIdle /\ NEIdle /\ HVIdle /\ RTIdle

NENext ==
    \/ NECall
    \/ NESizeHead
    \/ NEBatchHead
    \/ NEProfile

SpecNE == NEInit /\ [][NENext]_vars

\* The record the nested order puts at place k (from 1) of the results.
NestedRecord(k) ==
    [size |-> sizes[((k - 1) \div 8) + 1],
     batch_size |-> <<16, 32, 64, 128>>[(((k - 1) % 8) \div 2) + 1],
     compiled |-> ((k - 1) % 2 = 1)]

Occurrences(seq, v) == Cardinality({k \in 1 .. Len(seq) : seq[k] = v})

SizesOf(seq) == {seq[k] : k \in 1 .. Len(seq)}

\* C5 as stated: the returned list has exactly one record for every
\* combination of a size in sizes, a batch size in {16, 32, 64, 128} and a
\* compiled flag (len(sizes) * 8 records, none missing or duplicated), in nested
\* order; the plot's filter for one size and one flag yields the four batch
\* sizes in ascending order.
C5_OneRecordPerCombination ==
    ne_pc = "returned" =>
        /\ Len(results) = Len(sizes) * 8
        /\ \A k \in 1 .. Len(results) : results[k] = NestedRecord(k)
        /\ \A s \in SizesOf(sizes), b \in {16, 32, 64, 128}, c \in BOOLEAN :
              Occurrences(results,
                          [size |-> s, batch_size |-> b, compiled |-> c]) = 1
        /\ \A s \in SizesOf(sizes), c \in BOOLEAN :
              PlotBatchSizes(results, s, c) = <<16, 32, 64, 128>>

\* C5 as amended: one record for every combination of a place in sizes, a batch
\* size and a compiled flag (len(sizes) * 8 records) in nested order; a
\* combination of values occurs as often as its size occurs in sizes, so with
\* pairwise distinct sizes none is duplicated and the plot's filter yields the
\* four batch sizes in ascending order.
C5_OneRecordPerPlace ==
    ne_pc = "returned" =>
        /\ Len(results) = Len(sizes) * 8
        /\ \A k \in 1 .. Len(results) : results[k] = NestedRecord(k)
        /\ \A s \in SizeChoices, b \in {16, 32, 64, 128}, c \in BOOLEAN :
              Occurrences(results,
                          [size |-> s, batch_size |-> b, compiled |-> c])
                 = Occurrences(sizes, s)
        /\ (\A s \in SizesOf(sizes) : Occurrences(sizes, s) = 1) =>
              \A s \in SizesOf(sizes), c \in BOOLEAN :
                 PlotBatchSizes(results, s, c) = <<16, 32, 64, 128>>

\* The call has returned the sixteen records of two distinct sizes.
C5_Witness ==
    /\ ne_pc = "returned"
    /\ sizes = <<64, 32>>
    /\ Len(results) = 16
    /\ PlotBatchSizes(results, 64, TRUE) = <<16, 32, 64, 128>>

\* ---------------------------------------- HierarchicalWiringVisualizer
MaxUnits == 3
MaxSynapses == 2
MaxLayersArg == 2

Nodes(u) == 0 .. (u - 1)

\* The wirings drawn: u units and at most MaxSynapses synapses, each of
\* polarity 1 or -1; every other entry of the adjacency matrix is 0.
Wirings(u) ==
    LET Pairs == Nodes(u) \X Nodes(u)
        Synapses == {S \in SUBSET Pairs : Cardinality(S) <= MaxSynapses}
    IN  UNION {{[e \in Pairs |-> IF e \in S THEN pol[e] ELSE 0] :
                  pol \in [S -> {-1, 1}]} : S \in Synapses}

Abs(v) == IF v < 0 THEN -v ELSE v

RECURSIVE SumAbs(_, _)
SumAbs(adj, cells) ==
    IF cells = {} THEN 0
    ELSE LET c == CHOOSE c \in cells : TRUE
         IN  Abs(adj[c]) + SumAbs(adj, cells \ {c})

\* in_degree = mx.sum(mx.abs(adj), axis=0): the sum down column i.
in_degree(i) == SumAbs(adjacency_matrix, {<<r, i>> : r \in Nodes(units)})

\* out_degree = mx.sum(mx.abs(adj), axis=1): the sum along row i.
out_degree(i) == SumAbs(adjacency_matrix, {<<i, c>> : c \in Nodes(units)})

\* A list built by iterating over a set of small integers: ascending.
RECURSIVE ListOf(_)
ListOf(S) ==
    IF S = {} THEN <<>>
    ELSE LET m == CHOOSE m \in S : \A o \in S : m <= o
         IN  <<m>> \o ListOf(S \ {m})

SetOf(list) == {list[k] : k \in 1 .. Len(list)}

\* input_nodes = [i for i in remaining if in_degree[i] > out_degree[i]]
InputNodes(rem) == ListOf({i \in rem : in_degree(i) > out_degree(i)})

\* layer = [i for i in remaining if in_degree[i] == out_degree[i]]
HiddenNodes(rem) == ListOf({i \in rem : in_degree(i) = out_degree(i)})

\* A removal that removes nothing.
RemovedNothing(rem, nodes) == rem

\* remaining -= set(nodes)
Removed(rem, nodes) == rem \ SetOf(nodes)

\* layer_names = ['Input', 'Hidden 1', 'Hidden 2', 'Output']
layer_names == <<"Input", "Hidden 1", "Hidden 2", "Output">>

\* layer_names[:n]
FirstNames(n) ==
    [k \in 1 .. (IF n < Len(layer_names) THEN n ELSE Len(layer_names)) |->
        layer_names[k]]

\* `layers or self._detect_layers()`: None and the empty list are falsy.
Truthy(arg) == ~arg.none /\ arg.list # <<>>

\* The lists a caller passes as layers: up to MaxLayersArg layers over the
\* wiring's nodes.
LayerLists(u) ==
    AllSeqs({ListOf(S) : S \in SUBSET Nodes(u)}, MaxLayersArg)

notHV == <<cfcVars, trVars, neVars, rtVars>>

\* HierarchicalWiringVisualizer(wiring, layers): a wiring with no list (or an
\* empty one) goes through _detect_layers; a non-empty list becomes
\* self.layers whatever the wiring, which is then drawn without synapses.
HVConstruct ==
    /\ hv_pc = "idle"
    /\ \E u \in 1 .. MaxUnits :
          /\ units' = u
          /\ \/ /\ layers_arg' \in {NoLayers, GivenLayers(<<>>)}
                /\ adjacency_matrix' \in Wirings(u)
                /\ layers' = <<>>
                /\ remaining' = Nodes(u)
                /\ hv_pc' = "detect_input"
             \/ /\ layers_arg' \in
                      {GivenLayers(l) : l \in LayerLists(u) \ {<<>>}}
                /\ adjacency_matrix' = [e \in Nodes(u) \X Nodes(u) |-> 0]
                /\ layers' = layers_arg'.list
                /\ remaining' = {}
                /\ hv_pc' = "constructed"
    /\ UNCHANGED <<output_idx, hier_result, hier_labels, conn_labels>>
    /\ UNCHANGED notHV

\* _detect_layers: the input layer is appended, empty or not.
DetectInput ==
    /\ hv_pc = "detect_input"
    /\ layers' = Append(layers, InputNodes(remaining))
    /\ remaining' = Removed(remaining, InputNodes(remaining))
    /\ hv_pc' = "detect_hidden"
    /\ UNCHANGED <<units, adjacency_matrix, layers_arg, output_idx,
                   hier_result, hier_labels, conn_labels>>
    /\ UNCHANGED notHV

\* _detect_layers: one pass of `while remaining`, or its end.
DetectHidden ==
    /\ hv_pc = "detect_hidden"
    /\ IF remaining # {} /\ HiddenNodes(remaining) # <<>>
       THEN /\ layers' = Append(layers, HiddenNodes(remaining))
            /\ remaining' = Removed(remaining, HiddenNodes(remaining))
            /\ hv_pc' = "detect_hidden"
       ELSE /\ hv_pc' = "detect_output"
            /\ UNCHANGED <<layers, remaining>>
    /\ UNCHANGED <<units, adjacency_matrix, layers_arg, output_idx,
                   hier_result, hier_labels, conn_labels>>
    /\ UNCHANGED notHV

\* _detect_layers: the output layer, if nodes remain, and `return layers`.
DetectOutput ==
    /\ hv_pc = "detect_output"
    /\ IF remaining # {}
       THEN /\ layers' = Append(layers, ListOf(remaining))
            /\ output_idx' = Len(layers) + 1
       ELSE UNCHANGED <<layers, output_idx>>
    /\ hv_pc' = "constructed"
    /\ UNCHANGED <<units, adjacency_matrix, layers_arg, remaining,
                   hier_result, hier_labels, conn_labels>>
    /\ UNCHANGED notHV

\* plot_hierarchical: the first layer's y = 1 - layer_idx / (len(layers) - 1)
\* is a ZeroDivisionError when there is one layer; otherwise the labels are
\* placed.
PlotHierarchical ==
    /\ hv_pc = "constructed"
    /\ IF Len(layers) - 1 = 0
       THEN /\ hier_result' = "ZeroDivisionError"
            /\ hier_labels' = <<>>
       ELSE /\ hier_result' = "plotted"
            /\ hier_labels' = FirstNames(Len(layers))
    /\ UNCHANGED <<hv_pc, units, adjacency_matrix, layers_arg, layers,
                   remaining, output_idx, conn_labels>>
    /\ UNCHANGED notHV

\* plot_layer_connectivity: the tick labels layer_names[:n_layers].
PlotLayerConnectivity ==
    /\ hv_pc = "constructed"
    /\ conn_labels' = FirstNames(Len(layers))
    /\ UNCHANGED <<hv_pc, units, adjacency_matrix, layers_arg, layers,
                   remaining, output_idx, hier_result, hier_labels>>
    /\ UNCHANGED notHV

HVInit == GenIdle /\ TrainIdle /\ TrainerIdle /\ NEIdle /\ HVIdle /\ RTIdle

HVNext ==
    \/ HVConstruct
    \/ DetectInput
    \/ DetectHidden
    \/ DetectOutput
    \/ PlotHierarchical
    \/ PlotLayerConnectivity

SpecHV == HVInit /\ [][HVNext]_vars

\* C3: plot_hierarchical never fails in its own arithmetic: for every layer
\* list the visualizer can hold, the divisor len(self.layers) - 1 is non-zero.
C3_LayerDivisorNonZero ==
    /\ hv_pc = "constructed" => Len(layers) - 1 # 0
    /\ hier_result # "ZeroDivisionError"

\* C8: for every wiring, the layers returned by _detect_layers are pairwise
\* disjoint and together contain every unit index 0 .. units-1 exactly once.
C8_LayersPartitionUnits ==
    (hv_pc = "constructed" /\ ~Truthy(layers_arg)) =>
        /\ \A a, b \in 1 .. Len(layers) :
              a # b => SetOf(layers[a]) \cap SetOf(layers[b]) = {}
        /\ \A n \in Nodes(units) :
              Cardinality({<<a, k>> \in (1 .. Len(layers)) \X (1 .. units) :
                              k <= Len(layers[a]) /\ layers[a][k] = n}) = 1
        /\ \A a \in 1 .. Len(layers) : SetOf(layers[a]) \subseteq Nodes(units)

\* _detect_layers has returned an input, a hidden and an output layer.
C8_Witness ==
    /\ hv_pc = "constructed" /\ ~Truthy(layers_arg)
    /\ units = 3
    /\ Len(layers) = 3
    /\ \A a \in 1 .. 3 : layers[a] # <<>>

\* C9: in plot_hierarchical and plot_layer_connectivity the layers produced by
\* _detect_layers are labelled by their role: the first layer gets 'Input' and
\* the layer built as the output layer gets 'Output'.
C9_LayersLabelledByRole ==
    (hv_pc = "constructed" /\ ~Truthy(layers_arg)) =>
        /\ hier_result = "plotted" =>
              /\ hier_labels[1] = "Input"
              /\ output_idx # 0 => hier_labels[output_idx] = "Output"
        /\ conn_labels # <<>> =>
              /\ conn_labels[1] = "Input"
              /\ output_idx # 0 => conn_labels[output_idx] = "Output"

\* --------------------------------------------------- RealTimeVisualizer
MaxCalls == 2
MaxSteps == 3

\* The entry monitor stores for a step. The step's activity (the mean of the
\* model's output) is named by the step's ordinal among all steps performed;
\* connectivity is the wiring's adjacency matrix, the same at every step.
HistoryEntry(a) == [activity |-> a, connectivity |-> "adjacency_matrix"]

\* A store that keeps only the latest entry.
StoredLatestOnly(h, entry) == <<entry>>

\* self.history.append({...})
Stored(h, entry) == Append(h, entry)

\* plt.ion(): interactive mode on.
Ion == TRUE

\* A monitor that leaves interactive mode on.
IoffForgotten == TRUE

\* plt.ioff(): interactive mode off.
Ioff == FALSE

notRT == <<cfcVars, trVars, neVars, hvVars>>

\* RealTimeVisualizer(model): self.history = []
RTConstruct ==
    /\ rt_pc = "unbuilt"
    /\ rt_history' = <<>>
    /\ rt_pc' = "idle"
    /\ UNCHANGED <<n_steps, step, interactive, plot_ready, activity, calls,
                   len_at_call, steps_done>>
    /\ UNCHANGED call_events
    /\ UNCHANGED notRT

\* visualizer.monitor(input_data, n_steps=n)
MonitorCall ==
    /\ rt_pc = "idle"
    /\ calls < MaxCalls
    /\ \E n \in 0 .. MaxSteps : n_steps' = n
    /\ calls' = calls + 1
    /\ len_at_call' = Len(rt_history)
    /\ rt_pc' = "initialize_plot"
    /\ UNCHANGED <<rt_history, step, interactive, plot_ready, activity,
                   steps_done>>
    /\ call_events' = <<>>
    /\ UNCHANGED notRT

\* self.initialize_plot(): plt.ion() and the figure.
InitializePlot ==
    /\ rt_pc = "initialize_plot"
    /\ interactive' = Ion
    /\ plot_ready' = TRUE
    /\ step' = 0
    /\ rt_pc' = "loop_head"
    /\ UNCHANGED <<rt_history, n_steps, activity, calls, len_at_call,
                   steps_done>>
    /\ call_events' = <<"initialize_plot">>
    /\ UNCHANGED notRT

\* `for step in range(n_steps)`: output = self.model(input_data) and the
\* step's activity and connectivity, or the end of the loop.
ModelCall ==
    /\ rt_pc = "loop_head"
    /\ IF step < n_steps
       THEN /\ activity' = steps_done + 1
            /\ call_events' = Append(call_events, "model")
            /\ rt_pc' = "update_plot"
       ELSE /\ rt_pc' = "ioff"
            /\ UNCHANGED <<activity, call_events>>
    /\ UNCHANGED <<rt_history, n_steps, step, interactive, plot_ready, calls,
                   len_at_call, steps_done>>
    /\ UNCHANGED notRT

\* self.update_plot(activity, connectivity)
UpdatePlot ==
    /\ rt_pc = "update_plot"
    /\ rt_pc' = "append"
    /\ UNCHANGED <<rt_history, n_steps, step, interactive, plot_ready,
                   activity, calls, len_at_call, steps_done>>
    /\ call_events' = Append(call_events, "update_plot")
    /\ UNCHANGED notRT

\* self.history.append({'activity': activity, 'connectivity': connectivity})
AppendHistory ==
    /\ rt_pc = "append"
    /\ rt_history' = Stored(rt_history, HistoryEntry(activity))
    /\ rt_pc' = "pause"
    /\ UNCHANGED <<n_steps, step, interactive, plot_ready, activity, calls,
                   len_at_call, steps_done>>
    /\ call_events' = Append(call_events, "append")
    /\ UNCHANGED notRT

\* plt.pause(self.update_interval): the step is complete.
Pause ==
    /\ rt_pc = "pause"
    /\ step' = step + 1
    /\ steps_done' = steps_done + 1
    /\ rt_pc' = "loop_head"
    /\ UNCHANGED <<rt_history, n_steps, interactive, plot_ready, activity,
                   calls, len_at_call>>
    /\ call_events' = Append(call_events, "pause")
    /\ UNCHANGED notRT

\* plt.ioff(); plt.show(): monitor returns.
MonitorReturn ==
    /\ rt_pc = "ioff"
    /\ interactive' = Ioff
    /\ rt_pc' = "idle"
    /\ UNCHANGED <<rt_history, n_steps, step, plot_ready, activity, calls,
                   len_at_call, steps_done>>
    /\ call_events' = Append(call_events, "ioff")
    /\ UNCHANGED notRT

RTInit == GenIdle /\ TrainIdle /\ TrainerIdle /\ NEIdle /\ HVIdle /\ RTIdle

RTNext ==
    \/ RTConstruct
    \/ MonitorCall
    \/ InitializePlot
    \/ ModelCall
    \/ UpdatePlot
    \/ AppendHistory
    \/ Pause
    \/ MonitorReturn

SpecRT == RTInit /\ [][RTNext]_vars

\* C10: history starts empty and is only ever appended to: each completed
\* monitor call adds exactly n_steps entries, one per step and each holding
\* that step's activity and connectivity, so after any sequence of monitor
\* calls len(history) is the total number of steps performed by all of them.
C10_HistoryCountsSteps ==
    rt_pc # "unbuilt" =>
        /\ calls = 0 => rt_history = <<>>
        /\ \A k \in 1 .. Len(rt_history) :
              rt_history[k] = [activity |-> k,
                               connectivity |-> "adjacency_matrix"]
        /\ (rt_pc = "idle" /\ calls >= 1) =>
              Len(rt_history) = len_at_call + n_steps
        /\ rt_pc = "idle" => Len(rt_history) = steps_done
        /\ Len(rt_history) \in {steps_done, steps_done + 1}

\* Two monitor calls have completed, the second one adding to the entries of
\* the first.
C10_Witness ==
    /\ rt_pc = "idle" /\ calls = 2
    /\ len_at_call = 2 /\ n_steps = 3
    /\ Len(rt_history) = 5

\* What one loop pass of monitor does, in order.
StepEvents == <<"model", "update_plot", "append", "pause">>

RECURSIVE Passes(_)
Passes(k) == IF k <= 0 THEN <<>> ELSE Passes(k - 1) \o StepEvents

\* C14: initialize_plot runs before the first update_plot; in every step the
\* model call precedes update_plot, which precedes the history append, which
\* precedes the pause; interactive mode is switched on before the first step,
\* stays on during all steps, and is switched off after the last step of every
\* monitor call that completes.
C14_MonitorOrder ==
    /\ rt_pc \in {"loop_head", "update_plot", "append", "pause", "ioff"} =>
          /\ interactive
          /\ plot_ready
          /\ call_events =
                <<"initialize_plot">> \o Passes(step) \o
                   SubSeq(StepEvents, 1,
                          CASE rt_pc = "update_plot" -> 1
                            [] rt_pc = "append" -> 2
                            [] rt_pc = "pause" -> 3
                            [] OTHER -> 0)
          /\ rt_pc = "ioff" => step = n_steps
    /\ (rt_pc = "idle" /\ calls >= 1) =>
          /\ ~interactive
          /\ call_events =
                <<"initialize_plot">> \o Passes(n_steps) \o <<"ioff">>

\* A second monitor call of two steps has completed.
C14_Witness ==
    /\ rt_pc = "idle" /\ calls = 2
    /\ n_steps = 2 /\ len_at_call = 1
    /\ ~interactive
    /\ Len(call_events) = 10

====
